---- MODULE Spec2Model ----
(***************************************************************************)
(* LTLf specification merger (src/ltlf_merger/merger.py).                  *)
(*                                                                         *)
(* Text is modelled character by character: a string is a sequence of      *)
(* one-character strings, so that str.replace, str.startswith and the      *)
(* regular expressions of the code act on characters as they do in Python. *)
(* A Python dict is a sequence of <<key, value>> pairs in insertion order. *)
(***************************************************************************)
EXTENDS Integers, Sequences, FiniteSets

----------------------------------------------------------------------------
(* Bounds of the model *)

\* most spec files handed to one merge
MaxSpecs == 2
\* most variable tokens in one input formula
MaxTokens == 2
\* most names on one declared .inputs / .outputs line
MaxDecl == 2
\* share_ratio ranges over 0/RatioDen .. RatioDen/RatioDen
RatioDen == 2

----------------------------------------------------------------------------
(* Characters and names *)

Digits == <<"0", "1", "2", "3", "4", "5", "6", "7", "8", "9">>

IsDigit(c) == \E i \in 1..Len(Digits) : Digits[i] = c

\* the class [a-zA-Z0-9_] restricted to the characters the model writes
IsIdentChar(c) == IsDigit(c) \/ c \in {"p", "e", "s", "_"}

P1 == <<"p", "1">>
P10 == <<"p", "1", "0">>
PP1 == <<"p", "p", "1">>

\* variable names the input files are written with: p1 is a prefix of p10,
\* a suffix of pp1, and p10 and pp1 are unrelated
Names == {P1, P10, PP1}

Range(s) == {s[i] : i \in 1..Len(s)}

SeqsUpTo(S, n) == UNION {[1..k -> S] : k \in 0..n}

RECURSIVE Join(_, _)
Join(strs, sep) ==
    IF Len(strs) = 0 THEN <<>>
    ELSE IF Len(strs) = 1 THEN strs[1]
    ELSE strs[1] \o sep \o Join(Tail(strs), sep)

RECURSIVE Str(_)
Str(i) ==
    IF i < 10 THEN <<Digits[i + 1]>>
    ELSE Str(i \div 10) \o <<Digits[(i % 10) + 1]>>

----------------------------------------------------------------------------
(* Pure functions of merger.py *)

\* check_variable_repeat raises unless this holds
check_variable_repeat(vars) == Cardinality(Range(vars)) = Len(vars)

\* a check that never finds a shared name
check_variable_conflicts_never(env, sys) == {}

\* check_variable_conflicts raises unless this set is empty
check_variable_conflicts(env, sys) == Range(env) \cap Range(sys)

add_brackets_if_needed(formula) ==
    IF Len(formula) > 0 /\ formula[1] = "(" /\ formula[Len(formula)] = ")"
    THEN formula
    ELSE <<"(">> \o formula \o <<")">>

create_variable_array(count, prefix) ==
    [i \in 1..count |-> prefix \o Str(i - 1)]

\* re.match(r'^[^\d]+', s): the longest digit-free prefix
RECURSIVE NonDigitRun(_, _)
NonDigitRun(s, i) ==
    IF i > Len(s) \/ IsDigit(s[i]) THEN i - 1 ELSE NonDigitRun(s, i + 1)

get_prefix_without_digits(s) == SubSeq(s, 1, NonDigitRun(s, 1))

\* str.replace(old, new) for a non-empty old: leftmost non-overlapping
\* occurrences, scanned left to right
StartsWithAt(s, i, pat) ==
    /\ i + Len(pat) - 1 <= Len(s)
    /\ SubSeq(s, i, i + Len(pat) - 1) = pat

RECURSIVE ReplaceFrom(_, _, _, _)
ReplaceFrom(s, i, old, new) ==
    IF i > Len(s) THEN <<>>
    ELSE IF StartsWithAt(s, i, old)
         THEN new \o ReplaceFrom(s, i + Len(old), old, new)
         ELSE <<s[i]>> \o ReplaceFrom(s, i + 1, old, new)

Replace(s, old, new) == ReplaceFrom(s, 1, old, new)

\* re.findall(r'p[a-zA-Z0-9_]+', formula)
RECURSIVE IdentRunEnd(_, _)
IdentRunEnd(s, i) ==
    IF i > Len(s) \/ ~IsIdentChar(s[i]) THEN i - 1 ELSE IdentRunEnd(s, i + 1)

RECURSIVE FindAllFrom(_, _)
FindAllFrom(s, i) ==
    IF i > Len(s) THEN {}
    ELSE IF s[i] = "p" /\ i + 1 <= Len(s) /\ IsIdentChar(s[i + 1])
         THEN {SubSeq(s, i, IdentRunEnd(s, i + 1))}
              \cup FindAllFrom(s, IdentRunEnd(s, i + 1) + 1)
         ELSE FindAllFrom(s, i + 1)

get_used_variables(formula) == FindAllFrom(formula, 1)

\* [var for var in vars if var in used_var_set]
RECURSIVE Filter(_, _)
Filter(vars, S) ==
    IF Len(vars) = 0 THEN <<>>
    ELSE IF vars[1] \in S THEN <<vars[1]>> \o Filter(Tail(vars), S)
         ELSE Filter(Tail(vars), S)

\* max(counts) + int((sum(counts) - max(counts)) * share_ratio), with
\* share_ratio = ratio / RatioDen; int() of a non-negative float is its floor
RECURSIVE Sum(_)
Sum(counts) == IF Len(counts) = 0 THEN 0 ELSE counts[1] + Sum(Tail(counts))

Max(counts) == CHOOSE m \in Range(counts) : \A x \in Range(counts) : x <= m

Counts(vars_lists) == [i \in 1..Len(vars_lists) |-> Len(vars_lists[i])]

\* the pool sized as the sum of the counts whatever the ratio
calculate_merge_vars_count_sum(vars_lists, ratio) == Sum(Counts(vars_lists))

calculate_merge_vars_count(vars_lists, ratio) ==
    LET counts == Counts(vars_lists)
    IN  Max(counts) + ((Sum(counts) - Max(counts)) * ratio) \div RatioDen

\* k draws that leave the drawn name in the list
ShuffleWithoutPop(pool, k) == [1..k -> Range(pool)]

\* random.shuffle(tmp_vars) followed by k pops: the k popped names are
\* pairwise distinct names of the pool, in any order
ShuffleAndPop(pool, k) ==
    {s \in [1..k -> Range(pool)] : \A i, j \in 1..k : s[i] = s[j] => i = j}

\* one ShuffleAndPop per spec, in spec order
RECURSIVE AllPicks(_, _)
AllPicks(old_vars_lists, final_vars) ==
    IF Len(old_vars_lists) = 0 THEN {<<>>}
    ELSE {<<h>> \o t : h \in ShuffleAndPop(final_vars, Len(old_vars_lists[1])),
                       t \in AllPicks(Tail(old_vars_lists), final_vars)}

\* cur_vars_replace_map[old_var] = chosen_var, in the order of old_vars
PlanMaps(old_vars_lists, picks) ==
    [i \in 1..Len(old_vars_lists) |->
        [j \in 1..Len(old_vars_lists[i]) |-> <<old_vars_lists[i][j], picks[i][j]>>]]

\* used_vars.add(chosen_var) over all specs
UsedSet(picks) == UNION {Range(picks[i]) : i \in 1..Len(picks)}

\* list(used_vars): a set's iteration order is the interpreter's (it follows
\* the strings' hashes, which are salted per process), so any order; the
\* order is drawn where relabel_vars_in_plan enumerates the list
ListOfSet(S) ==
    {s \in [1..Cardinality(S) -> S] : \A i, j \in 1..Cardinality(S) : s[i] = s[j] => i = j}

IndexOf(list, x) == CHOOSE i \in 1..Len(list) : list[i] = x

\* the pool name kept as it is
relabel_map_kept(used, var) == var

\* relabel_map[var] = f"{prefix}{i}" for i, var in enumerate(used_vars)
relabel_map(used, var) ==
    get_prefix_without_digits(used[1]) \o Str(IndexOf(used, var) - 1)

\* one name more than there are used names
relabel_vars_one_more(used) ==
    [i \in 1..Len(used) + 1 |-> get_prefix_without_digits(used[1]) \o Str(i - 1)]

relabel_vars(used) ==
    [i \in 1..Len(used) |-> get_prefix_without_digits(used[1]) \o Str(i - 1)]

relabel_maps(maps, used) ==
    [i \in 1..Len(maps) |->
        [j \in 1..Len(maps[i]) |-> <<maps[i][j][1], relabel_map(used, maps[i][j][2])>>]]

\* for old_var, new_var in m.items(): formula = formula.replace(old_var, new_var)
RECURSIVE ReplaceAll(_, _)
ReplaceAll(formula, pairs) ==
    IF Len(pairs) = 0 THEN formula
    ELSE ReplaceAll(Replace(formula, pairs[1][1], pairs[1][2]), Tail(pairs))

Chars_inputs == <<".", "i", "n", "p", "u", "t", "s", ":", " ">>
Chars_outputs == <<".", "o", "u", "t", "p", "u", "t", "s", ":", " ">>

convert_ltlf(fs) == Join(fs, <<" ", "&", "&", " ">>)

convert_part(env, sys) ==
    Chars_inputs \o Join(env, <<" ">>) \o <<"\n">>
    \o Chars_outputs \o Join(sys, <<" ">>) \o <<"\n">>

----------------------------------------------------------------------------
(* Input files *)

\* a .ltlf file: variable tokens joined by "&", with or without an outer
\* pair of brackets
TokenLists == SeqsUpTo(Names, MaxTokens) \ {<<>>}

FormulaText(tokens, wrapped) ==
    IF wrapped THEN <<"(">> \o Join(tokens, <<"&">>) \o <<")">>
    ELSE Join(tokens, <<"&">>)

\* a line of a .part file, as str.split() returns it
DeclLists == SeqsUpTo(Names, MaxDecl)

\* the body of the loop of load_specs for one pair of files: the bracketed
\* formula, the two lists as read, and either the check that raised or the
\* lists narrowed to the variables the formula uses
load_one(text, env, sys) ==
    LET formula == add_brackets_if_needed(text)
        used_var_set == get_used_variables(formula)
    IN  IF ~check_variable_repeat(env) \/ ~check_variable_repeat(sys)
        THEN [raised |-> "repeat", formula |-> formula, env_vars |-> env,
              sys_vars |-> sys, used_env_vars |-> <<>>, used_sys_vars |-> <<>>]
        ELSE IF check_variable_conflicts(env, sys) # {}
        THEN [raised |-> "conflict", formula |-> formula, env_vars |-> env,
              sys_vars |-> sys, used_env_vars |-> <<>>, used_sys_vars |-> <<>>]
        ELSE [raised |-> "none", formula |-> formula, env_vars |-> env,
              sys_vars |-> sys, used_env_vars |-> Filter(env, used_var_set),
              used_sys_vars |-> Filter(sys, used_var_set)]

\* what the loop body makes of every pair of files of the model
LoadedFiles ==
    {load_one(FormulaText(tokens, wrapped), env, sys) :
        tokens \in TokenLists, wrapped \in BOOLEAN, env \in DeclLists, sys \in DeclLists}

----------------------------------------------------------------------------
(* State *)

VARIABLES
    share_ratio,           \* self.share_ratio, as a numerator over RatioDen
    spec_count,            \* len(spec_files)
    seeded,                \* a second process runs the same merge from the same seed
    pc,                    \* where merge_specs stands
    err,                   \* the exception that ended the merge, or "none"
    formulas,              \* load_specs: formulas
    vars_lists,            \* load_specs: env_vars_lists / sys_vars_lists
    env_vars, sys_vars,    \* load_specs: the lists read from the current .part file
    replace_plan,          \* get_random_replace_plan's maps and its set used_vars
    vars_replace_map_arr,  \* env_/sys_vars_replace_map_arr after relabeling
    used_vars,             \* used_env_vars / used_sys_vars after relabeling
    replaced_formulas,     \* merge_specs_inner: replaced_formulas
    merged_ltlf,           \* convert_spec_to_string: merged_ltlf
    merged_part,           \* convert_spec_to_string: merged_part
    twin                   \* the second process: its maps, lists and output

vars == <<share_ratio, spec_count, seeded, pc, err, formulas, vars_lists, env_vars,
          sys_vars, replace_plan, vars_replace_map_arr, used_vars,
          replaced_formulas, merged_ltlf, merged_part, twin>>

Classes == {"env", "sys"}

\* both pools made with the prefix 'e'
Prefix_same(c) == <<"e">>

\* create_variable_array(env_count, 'e') / create_variable_array(sys_count, 's')
Prefix(c) == IF c = "env" THEN <<"e">> ELSE <<"s">>

NoPlan == [maps |-> <<>>, used |-> {}]

NoTwin ==
    [vars_replace_map_arr |-> [c \in Classes |-> <<>>],
     used_vars |-> [c \in Classes |-> <<>>],
     replaced_formulas |-> <<>>, merged_ltlf |-> <<>>, merged_part |-> <<>>]

Start ==
    /\ share_ratio \in 0..RatioDen
    /\ spec_count \in 1..MaxSpecs
    /\ pc = "load"
    /\ err = "none"
    /\ formulas = <<>>
    /\ vars_lists = [c \in Classes |-> <<>>]
    /\ env_vars = <<>>
    /\ sys_vars = <<>>
    /\ replace_plan = [c \in Classes |-> NoPlan]
    /\ vars_replace_map_arr = [c \in Classes |-> <<>>]
    /\ used_vars = [c \in Classes |-> <<>>]
    /\ replaced_formulas = <<>>
    /\ merged_ltlf = <<>>
    /\ merged_part = <<>>
    /\ twin = NoTwin

\* one process merges
Init == Start /\ seeded = FALSE

\* two processes call random.seed(s) with the same s, build LTLfSpecMerger()
\* with its default share_ratio of 0.5 and merge the same files: every
\* random.shuffle returns the same permutation in both
InitSeeded == Start /\ seeded = TRUE /\ 2 * share_ratio = RatioDen

----------------------------------------------------------------------------
(* merge_specs, step by step *)

\* load_specs: one iteration of its loop. An exception leaves merge_specs:
\* its lists are gone and nothing is returned; env_vars and sys_vars keep the
\* lists of the file that was refused
LoadSpec ==
    /\ pc = "load"
    /\ \E f \in LoadedFiles :
        LET loaded == Len(formulas) + 1 = spec_count
        IN  IF f.raised # "none"
            THEN /\ err' = f.raised
                 /\ pc' = "error"
                 /\ env_vars' = f.env_vars
                 /\ sys_vars' = f.sys_vars
                 /\ formulas' = <<>>
                 /\ vars_lists' = [c \in Classes |-> <<>>]
            ELSE /\ formulas' = Append(formulas, f.formula)
                 /\ vars_lists' =
                        [c \in Classes |->
                            Append(vars_lists[c],
                                   IF c = "env" THEN f.used_env_vars ELSE f.used_sys_vars)]
                 /\ pc' = IF loaded THEN "plan_env" ELSE "load"
                 /\ env_vars' = IF loaded THEN <<>> ELSE f.env_vars
                 /\ sys_vars' = IF loaded THEN <<>> ELSE f.sys_vars
                 /\ UNCHANGED err
    /\ UNCHANGED <<share_ratio, spec_count, seeded, replace_plan,
                   vars_replace_map_arr, used_vars, replaced_formulas, merged_ltlf,
                   merged_part, twin>>

PoolSize(c) == calculate_merge_vars_count(vars_lists[c], share_ratio)

FinalVars(c) == create_variable_array(PoolSize(c), Prefix(c))

\* get_random_replace_plan for class c
Plan(c) ==
    /\ pc = "plan_" \o c
    /\ IF \E i \in 1..Len(vars_lists[c]) : Len(vars_lists[c][i]) > PoolSize(c)
       THEN \* tmp_vars.pop() on an empty list
            /\ err' = "pop_empty"
            /\ pc' = "error"
            /\ UNCHANGED replace_plan
       ELSE \E picks \in AllPicks(vars_lists[c], FinalVars(c)) :
            /\ replace_plan' =
                   [replace_plan EXCEPT ![c] =
                       [maps |-> PlanMaps(vars_lists[c], picks), used |-> UsedSet(picks)]]
            /\ pc' = "relabel_" \o c
            /\ UNCHANGED err
    /\ UNCHANGED <<share_ratio, spec_count, seeded, formulas, vars_lists, env_vars,
                   sys_vars, vars_replace_map_arr, used_vars, replaced_formulas,
                   merged_ltlf, merged_part, twin>>

\* relabel_vars_in_plan for class c; the second process enumerates the same
\* set in an order of its own
Relabel(c) ==
    /\ pc = "relabel_" \o c
    /\ IF replace_plan[c].used = {}
       THEN /\ err' = "empty_used"
            /\ pc' = "error"
            /\ UNCHANGED <<vars_replace_map_arr, used_vars, twin>>
       ELSE \E used \in ListOfSet(replace_plan[c].used) :
            \E used2 \in (IF seeded THEN ListOfSet(replace_plan[c].used) ELSE {used}) :
                /\ vars_replace_map_arr' =
                       [vars_replace_map_arr EXCEPT ![c] =
                           relabel_maps(replace_plan[c].maps, used)]
                /\ used_vars' = [used_vars EXCEPT ![c] = relabel_vars(used)]
                /\ twin' = IF seeded
                           THEN [twin EXCEPT
                                   !.vars_replace_map_arr[c] =
                                       relabel_maps(replace_plan[c].maps, used2),
                                   !.used_vars[c] = relabel_vars(used2)]
                           ELSE twin
                /\ pc' = IF c = "env" THEN "plan_sys" ELSE "rewrite"
                /\ UNCHANGED err
    /\ replace_plan' = [replace_plan EXCEPT ![c] = NoPlan]
    /\ UNCHANGED <<share_ratio, spec_count, seeded, formulas, vars_lists, env_vars,
                   sys_vars, replaced_formulas, merged_ltlf, merged_part>>

\* the replacement loop of merge_specs_inner for one formula
RewriteFormula(formula, env_map, sys_map) ==
    ReplaceAll(ReplaceAll(formula, env_map), sys_map)

RewriteAll(map_arr) ==
    [i \in 1..Len(formulas) |->
        RewriteFormula(formulas[i], map_arr["env"][i], map_arr["sys"][i])]

Rewrite ==
    /\ pc = "rewrite"
    /\ replaced_formulas' = RewriteAll(vars_replace_map_arr)
    /\ twin' = IF seeded
               THEN [twin EXCEPT !.replaced_formulas = RewriteAll(twin.vars_replace_map_arr)]
               ELSE twin
    /\ pc' = "convert"
    /\ UNCHANGED <<share_ratio, spec_count, seeded, err, formulas, vars_lists,
                   env_vars, sys_vars, replace_plan, vars_replace_map_arr, used_vars,
                   merged_ltlf, merged_part>>

\* convert_spec_to_string
Convert ==
    /\ pc = "convert"
    /\ merged_ltlf' = convert_ltlf(replaced_formulas)
    /\ merged_part' = convert_part(used_vars["env"], used_vars["sys"])
    /\ twin' = IF seeded
               THEN [twin EXCEPT
                       !.merged_ltlf = convert_ltlf(twin.replaced_formulas),
                       !.merged_part =
                           convert_part(twin.used_vars["env"], twin.used_vars["sys"])]
               ELSE twin
    /\ pc' = "done"
    /\ UNCHANGED <<share_ratio, spec_count, seeded, err, formulas, vars_lists,
                   env_vars, sys_vars, replace_plan, vars_replace_map_arr, used_vars,
                   replaced_formulas>>

Next ==
    \/ LoadSpec
    \/ Plan("env")
    \/ Relabel("env")
    \/ Plan("sys")
    \/ Relabel("sys")
    \/ Rewrite
    \/ Convert

Spec == Init /\ [][Next]_vars

SpecSeeded == InitSeeded /\ [][Next]_vars

----------------------------------------------------------------------------
(* Vocabulary of the properties *)

MergedEnv == used_vars["env"]
MergedSys == used_vars["sys"]

Ratio0 == share_ratio = 0
Ratio1 == share_ratio = RatioDen

\* the maximal runs of identifier characters of a text
RECURSIVE IdentTokensFrom(_, _)
IdentTokensFrom(s, i) ==
    IF i > Len(s) THEN {}
    ELSE IF IsIdentChar(s[i])
         THEN {SubSeq(s, i, IdentRunEnd(s, i))} \cup IdentTokensFrom(s, IdentRunEnd(s, i) + 1)
         ELSE IdentTokensFrom(s, i + 1)

IdentTokens(s) == IdentTokensFrom(s, 1)

\* the original variables of spec i: its narrowed env and sys lists
Originals(i) == Range(vars_lists["env"][i]) \cup Range(vars_lists["sys"][i])

\* every variable token of spec i's formula is a declared variable
AllTokensDeclared(i) == IdentTokens(formulas[i]) \subseteq Originals(i)

IsPrefixOf(a, b) == Len(a) <= Len(b) /\ SubSeq(b, 1, Len(a)) = a

NoPrefixPair(i) ==
    \A a, b \in Originals(i) : a # b => ~IsPrefixOf(a, b)

Keys(map) == [j \in 1..Len(map) |-> map[j][1]]
Values(map) == [j \in 1..Len(map) |-> map[j][2]]

Injective(s) == \A i, j \in 1..Len(s) : s[i] = s[j] => i = j

\* two specs, each with exactly one narrowed env variable, merged to the end
TwoSingleEnvSpecs ==
    /\ pc = "done"
    /\ Len(vars_lists["env"]) = 2
    /\ Len(vars_lists["env"][1]) = 1
    /\ Len(vars_lists["env"][2]) = 1

NoOutput ==
    /\ replaced_formulas = <<>>
    /\ merged_ltlf = <<>>
    /\ merged_part = <<>>
    /\ used_vars = [c \in Classes |-> <<>>]
    /\ vars_replace_map_arr = [c \in Classes |-> <<>>]

\* the file whose lists env_vars and sys_vars hold declares a name twice
CurrentFileConflicts == Range(env_vars) \cap Range(sys_vars) # {}

CurrentFileRepeats == ~Injective(env_vars) \/ ~Injective(sys_vars)

----------------------------------------------------------------------------
(* Properties *)

\* C1: when the merge returns, the variable tokens of the merged formula are
\* exactly the names of the two merged lists, for every input whose formulas
\* use declared variables only, one name being a substring of another included
C1_FormulaVarsAreMergedVars ==
    (pc = "done" /\ \A i \in 1..Len(formulas) : AllTokensDeclared(i))
        => IdentTokens(merged_ltlf) = Range(MergedEnv) \cup Range(MergedSys)

\* C2: the merged env list and the merged sys list have no name in common
C2_MergedListsDisjoint ==
    Range(MergedEnv) \cap Range(MergedSys) = {}

C2_Witness ==
    pc = "done" /\ Len(MergedEnv) = 2 /\ Len(MergedSys) = 2

C4_CountBounds ==
    pc = "done" =>
        \A c \in Classes :
            /\ Max(Counts(vars_lists[c])) <= Len(used_vars[c])
            /\ Len(used_vars[c]) <= Sum(Counts(vars_lists[c]))

C4_Witness ==
    /\ pc = "done"
    /\ Len(MergedEnv) < Sum(Counts(vars_lists["env"]))
    /\ Len(MergedSys) > Max(Counts(vars_lists["sys"]))

\* C5 as claimed: a file that declares a name as env and as sys ends the merge
\* in the variable-conflict error, with nothing returned
C5_Original ==
    CurrentFileConflicts => (pc = "error" /\ err = "conflict" /\ NoOutput)

\* C5 amended: a file that declares a name as env and as sys ends the merge in
\* an error with nothing returned; the error is the variable-conflict error
\* unless one of the file's two lists repeats a name, and then it is the
\* repeated-variable error
C5_Amended ==
    CurrentFileConflicts =>
        /\ pc = "error"
        /\ NoOutput
        /\ err = IF CurrentFileRepeats THEN "repeat" ELSE "conflict"

C5_Witness ==
    /\ CurrentFileConflicts
    /\ ~CurrentFileRepeats
    /\ spec_count = 2
    /\ err = "conflict"

\* C6: two runs of the same merge from the same seed return the same merged
\* formula, the same .part text and the same merged lists
C6_SameSeedSameOutput ==
    (seeded /\ pc = "done") =>
        /\ twin.merged_ltlf = merged_ltlf
        /\ twin.merged_part = merged_part
        /\ twin.used_vars = used_vars

\* C7: with env counts [1,1], share_ratio 0 gives the sum of the counts (2
\* merged env names) and share_ratio 1 gives their max (1)
C7_TestedShareRatios ==
    TwoSingleEnvSpecs =>
        /\ Ratio0 => Len(MergedEnv) = 2
        /\ Ratio1 => Len(MergedEnv) = 1

\* C8: once a class is relabeled, each spec's map has exactly the spec's
\* narrowed variables as keys, in their order, and maps no two of them to the
\* same merged name
C8_MapsInjectiveAndTotal ==
    \A c \in Classes :
        vars_replace_map_arr[c] # <<>> =>
            /\ Len(vars_replace_map_arr[c]) = Len(vars_lists[c])
            /\ \A i \in 1..Len(vars_lists[c]) :
                /\ Keys(vars_replace_map_arr[c][i]) = vars_lists[c][i]
                /\ Injective(Values(vars_replace_map_arr[c][i]))

\* a spec with two env variables, and two specs sharing a merged env name
C8_Witness ==
    /\ pc = "done"
    /\ Len(vars_lists["env"]) = 2
    /\ Len(vars_lists["env"][1]) = 2
    /\ Len(vars_lists["env"][2]) = 1
    /\ vars_replace_map_arr["env"][2][1][2] \in Range(Values(vars_replace_map_arr["env"][1]))

\* the token-wise substitution: every identifier token that is a key of the
\* pairs is replaced by its value, all at once
Lookup(pairs, tok) ==
    IF \E j \in 1..Len(pairs) : pairs[j][1] = tok
    THEN pairs[CHOOSE j \in 1..Len(pairs) : pairs[j][1] = tok][2]
    ELSE tok

RECURSIVE SubstituteFrom(_, _, _)
SubstituteFrom(s, i, pairs) ==
    IF i > Len(s) THEN <<>>
    ELSE IF IsIdentChar(s[i])
         THEN Lookup(pairs, SubSeq(s, i, IdentRunEnd(s, i)))
              \o SubstituteFrom(s, IdentRunEnd(s, i) + 1, pairs)
         ELSE <<s[i]>> \o SubstituteFrom(s, i + 1, pairs)

SubstituteTokens(s, pairs) == SubstituteFrom(s, 1, pairs)

Orders(n) == {p \in [1..n -> 1..n] : Injective(p)}

PairsOf(i) == vars_replace_map_arr["env"][i] \o vars_replace_map_arr["sys"][i]

\* C9: for a spec none of whose original names is a prefix of another, the
\* rewritten formula is what every order of applying the spec's replacement
\* pairs gives, and is the token-wise substitution of the formula
C9_OrderIndependent ==
    pc = "done" =>
        \A i \in 1..Len(formulas) :
            (AllTokensDeclared(i) /\ NoPrefixPair(i)) =>
                /\ replaced_formulas[i] = SubstituteTokens(formulas[i], PairsOf(i))
                /\ \A p \in Orders(Len(PairsOf(i))) :
                       ReplaceAll(formulas[i], [j \in 1..Len(PairsOf(i)) |-> PairsOf(i)[p[j]]])
                           = replaced_formulas[i]

\* C10: relabel_vars_in_plan, given a non-empty set of k used pool names of a
\* class, returns the list prefix0 .. prefix(k-1), keeps every map's keys,
\* and gives two original variables (of any specs) the same final name
\* exactly when they had the same pool name
RelabelStep(c) ==
    LET old == replace_plan[c].maps
        new == vars_replace_map_arr'[c]
        k == Cardinality(replace_plan[c].used)
    IN  /\ used_vars'[c] = [n \in 1..k |-> Prefix(c) \o Str(n - 1)]
        /\ Len(new) = Len(old)
        /\ \A i \in 1..Len(old) :
            /\ Keys(new[i]) = Keys(old[i])
            /\ \A j \in 1..Len(old[i]) : new[i][j][2] \in Range(used_vars'[c])
        /\ \A i1, i2 \in 1..Len(old) :
            \A j1 \in 1..Len(old[i1]) : \A j2 \in 1..Len(old[i2]) :
                (new[i1][j1][2] = new[i2][j2][2]) <=> (old[i1][j1][2] = old[i2][j2][2])

C10_RelabelIsBijection ==
    [][\A c \in Classes :
          (pc = "relabel_" \o c /\ replace_plan[c].used # {}) => RelabelStep(c)]_vars

\* env has just been relabeled: three used pool names, and a name two specs share
C10_Witness ==
    /\ pc = "plan_sys"
    /\ Len(MergedEnv) = 3
    /\ Len(vars_lists["env"]) = 2
    /\ \E j \in 1..2 :
          vars_replace_map_arr["env"][2][j][2] \in Range(Values(vars_replace_map_arr["env"][1]))

====
